---------------------------- MODULE Spec2Model ----------------------------
(***************************************************************************)
(* State-machine model of the portfolio site's client-side scripts.        *)
(*                                                                         *)
(*   src/script.js        ThemeManager, MobileNav, ExperienceTimeline      *)
(*   src/network-hero.js  NetworkHero                                      *)
(*                                                                         *)
(* JavaScript runs every listener to completion on one thread, so each     *)
(* action below is one dispatched event (or one settled promise            *)
(* continuation) with all the handlers it runs composed in dispatch order. *)
(* Two specifications share the module: SpecPage drives the components of  *)
(* script.js, SpecHero drives the canvas animation of network-hero.js.     *)
(***************************************************************************)
EXTENDS Integers, Sequences, FiniteSets, TLC

VARIABLES
    \* ---- ThemeManager (script.js 7-30)
    localStorageTheme,   \* localStorage item 'theme' (NullV when absent)
    theme,               \* this.theme
    dataTheme,           \* documentElement attribute data-theme
    themeToggle,         \* DOM: [present, inNavLinks] of #themeToggle
    toggleClicks,        \* number of clicks dispatched to #themeToggle
    initialTheme,        \* value of this.theme when the constructor returned
    \* ---- MobileNav (script.js 33-84)
    mobileNav,           \* [present, isOpen, toggleActive, navLinksActive, cssText]
    lastClick,           \* [target, wasOpen] of the last dispatched click
    \* ---- ExperienceTimeline (script.js 87-145)
    container,           \* [present, html]: #timeline and its innerHTML
    timelinePc,          \* position of the async init()
    response,            \* what the fetch produced (kept once it settled)
    initPromise,         \* state of the promise returned by init()
    containerWrites,     \* number of assignments to container.innerHTML
    fetchLog,            \* one entry per fetch() call: the innerHTML at the call
    timelineItems,       \* style and observation of the .timeline-item elements
    \* ---- ScrollProgress, ActiveNav, ScrollAnimations (script.js 173-273)
    documentElement,     \* [scrollTop, scrollHeight, clientHeight], px
    progressBar,         \* [present, width]: #scrollProgress and its style.width
    activeNav,           \* [wired, sections, links]
    scrollAnimations,    \* [constructed, cards]: the statically marked-up cards
    scrolled,            \* a scroll event has been dispatched
    \* ---- NetworkHero (network-hero.js 7-171)
    prefersReducedMotion,\* matchMedia('(prefers-reduced-motion: reduce)').matches
    window,              \* [innerWidth, innerHeight] of the viewport, px
    canvas,              \* [width, height] of the canvas, px
    nodes,               \* this.nodes: sequence of [x, y, vx, vy, radius]
    mouse,               \* this.mouse: [x, y], NoCoord for null
    animationId,         \* this.animationId, NoFrame for null
    rafPending,          \* ids of the animation frame requests not yet run
    rafRequests,         \* number of requestAnimationFrame calls so far
    listeners,           \* event types with a listener attached to window
    renderCount,         \* number of render() calls so far
    lastRender,          \* [nodes, lines]: what the last render() drew
    resized,             \* a resize event has happened
    destroyed            \* destroy() has been called

pageVars == <<localStorageTheme, theme, dataTheme, themeToggle, toggleClicks,
              initialTheme, mobileNav, lastClick, container, timelinePc,
              response, initPromise, containerWrites, fetchLog, timelineItems,
              documentElement, progressBar, activeNav, scrollAnimations,
              scrolled>>

scrollVars == <<documentElement, progressBar, activeNav, scrollAnimations,
                scrolled>>

heroVars == <<prefersReducedMotion, window, canvas, nodes, mouse, animationId,
              rafPending, rafRequests, listeners, renderCount, lastRender,
              resized, destroyed>>

vars == <<pageVars, heroVars>>

NullV == "null"

\* ------------------------------------------------------------------------
\* Bounds of the model
\* ------------------------------------------------------------------------
MaxClicks == 4
MaxEntries == 2
MaxFrames == 3

\* ------------------------------------------------------------------------
\* ThemeManager
\* ------------------------------------------------------------------------

\* The values the storage key 'theme' can hold when the page loads.
StoredThemes == {NullV, "light", "dark"}

\* localStorage.getItem('theme') || 'light'
ReadTheme(stored) == IF stored = NullV \/ stored = "" THEN "light" ELSE stored

ToggledThemeStuck(t) == "dark"

\* this.theme === 'light' ? 'dark' : 'light'
ToggledTheme(t) == IF t = "light" THEN "dark" ELSE "light"

\* Where #themeToggle can be: absent, outside '.nav-links' or inside it.
ThemeToggles == {[present |-> FALSE, inNavLinks |-> FALSE],
                 [present |-> TRUE, inNavLinks |-> FALSE],
                 [present |-> TRUE, inNavLinks |-> TRUE]}

\* constructor + init(): read the preference, apply it
ThemeInit(stored, button) ==
    /\ localStorageTheme = stored
    /\ theme = ReadTheme(stored)
    /\ dataTheme = theme
    /\ initialTheme = theme
    /\ themeToggle = button
    /\ toggleClicks = 0

toggleThemeNoPersist ==
    /\ theme' = ToggledTheme(theme)
    /\ UNCHANGED localStorageTheme
    /\ dataTheme' = theme'
    /\ toggleClicks' = toggleClicks + 1

\* toggleTheme(): flip, persist, apply
toggleTheme ==
    /\ theme' = ToggledTheme(theme)
    /\ localStorageTheme' = theme'
    /\ dataTheme' = theme'
    /\ toggleClicks' = toggleClicks + 1

themeUnchanged == UNCHANGED <<localStorageTheme, theme, dataTheme, toggleClicks>>


\* ------------------------------------------------------------------------
\* MobileNav
\* ------------------------------------------------------------------------

\* The inline style block written on opening (script.js 68-79).
FlexCss == "display: flex; flex-direction: column; position: absolute"

\* Where a click can land.
ClickTargets == {"themeToggle", "mobileMenuToggle", "navLink", "navLinks", "body"}

\* constructor: isOpen = false; the markup carries no 'active' class and
\* no inline style.  present: #mobileMenuToggle exists.
MobileNavInit(p) ==
    /\ mobileNav = [present |-> p, isOpen |-> FALSE, toggleActive |-> FALSE,
                    navLinksActive |-> FALSE, cssText |-> ""]
    /\ lastClick = [target |-> "none", wasOpen |-> FALSE]

toggleMenuNoStyleReset(nav) ==
    [nav EXCEPT !.isOpen = ~nav.isOpen,
                !.toggleActive = ~nav.toggleActive,
                !.navLinksActive = ~nav.navLinksActive,
                !.cssText = FlexCss]

\* toggleMenu(): flip isOpen, toggle both 'active' classes, write or clear
\* the inline style
toggleMenu(nav) ==
    [nav EXCEPT !.isOpen = ~nav.isOpen,
                !.toggleActive = ~nav.toggleActive,
                !.navLinksActive = ~nav.navLinksActive,
                !.cssText = IF ~nav.isOpen THEN FlexCss ELSE ""]

\* this.toggle.contains(e.target)
ToggleContains(target) == target = "mobileMenuToggle"

\* this.navLinks.contains(e.target)
NavLinksContains(target) ==
    \/ target \in {"navLink", "navLinks"}
    \/ target = "themeToggle" /\ themeToggle.inNavLinks

linkListenerAlwaysToggles(nav) == toggleMenu(nav)

\* listener of every '.nav-links a': if (this.isOpen) this.toggleMenu()
linkListener(nav) == IF nav.isOpen THEN toggleMenu(nav) ELSE nav

documentListenerIgnoresToggle(nav, target) ==
    IF nav.isOpen /\ ~NavLinksContains(target)
    THEN toggleMenu(nav)
    ELSE nav

\* document listener: close when open and the click is outside both
documentListener(nav, target) ==
    IF nav.isOpen /\ ~ToggleContains(target) /\ ~NavLinksContains(target)
    THEN toggleMenu(nav)
    ELSE nav

\* The listener on the clicked element itself, which runs first.
targetListener(nav, target) ==
    CASE target = "mobileMenuToggle" -> toggleMenu(nav)
      [] target = "navLink" -> linkListener(nav)
      [] OTHER -> nav

\* One click, fully dispatched: the target's listener, then the document's.
\* init() wires nothing when #mobileMenuToggle is absent.
dispatchClick(nav, target) ==
    IF nav.present THEN documentListener(targetListener(nav, target), target)
    ELSE nav

Click(target) ==
    /\ target = "themeToggle" => themeToggle.present /\ toggleClicks < MaxClicks
    /\ target = "mobileMenuToggle" => mobileNav.present
    /\ mobileNav' = dispatchClick(mobileNav, target)
    /\ lastClick' = [target |-> target, wasOpen |-> mobileNav.isOpen]
    /\ IF target = "themeToggle" THEN toggleTheme ELSE themeUnchanged
    /\ UNCHANGED <<themeToggle, initialTheme, container, timelinePc, response,
                   initPromise, containerWrites, fetchLog, timelineItems>>
    /\ UNCHANGED scrollVars
    /\ UNCHANGED heroVars

\* ------------------------------------------------------------------------
\* ExperienceTimeline
\* ------------------------------------------------------------------------

Entry(t, o, s, e, l, d, h) ==
    [isNull |-> FALSE, title |-> t, organization |-> o, startDate |-> s,
     endDate |-> e, location |-> l, description |-> d, highlights |-> h]

\* Entries a served document can carry.  description and highlights are
\* optional: <<>> is an absent field, <<v>> a field of value v.  NullEntry
\* is a JSON null in the array.
Entry1 == Entry("Lead", "Acme", "2019", "2021", "Paris",
                <<"Led the team">>, << <<"Shipped", "Hired">> >>)
Entry2 == Entry("Engineer", "Initech", "2015", "2019", "Austin",
                <<>>, << <<>> >>)
Entry3 == Entry("Intern", "Globex", "2014", "2015", "Remote",
                <<"">>, <<>>)
NullEntry == [Entry("", "", "", "", "", <<>>, <<>>) EXCEPT !.isNull = TRUE]

Entries == {Entry1, Entry2, Entry3, NullEntry}

SeqsUpTo(S, n) == UNION {[1..k -> S] : k \in 0..n}

\* Bodies response.json() can produce.
Bodies ==
    {[json |-> "invalid", experience |-> <<>>],
     [json |-> "noExperience", experience |-> <<>>]}
    \cup {[json |-> "array", experience |-> xs] : xs \in SeqsUpTo(Entries, MaxEntries)}

UnreadBody == [json |-> "unread", experience |-> <<>>]

Statuses == {200, 404, 500}

Element(c, t) == [cls |-> c, text |-> t]

\* Inline style and observation of an element the parser has just created:
\* no inline style, not observed, no intersection entry delivered yet.
NewElement ==
    [opacity |-> "", transform |-> "", transition |-> "", observed |-> FALSE,
     lastEntry |-> "none"]

LoadingBlock ==
    [cls |-> "timeline-loading",
     children |-> <<Element("text", <<"Loading experience...">>)>>]

\* exp.description ? <p class="timeline-description"> : ''
DescriptionPart(exp) ==
    IF exp.description # <<>> /\ exp.description[1] # ""
    THEN <<Element("timeline-description", exp.description)>>
    ELSE <<>>

\* exp.highlights && exp.highlights.length > 0 ? <ul> of <li> : ''
HighlightsPart(exp) ==
    IF exp.highlights # <<>> /\ Len(exp.highlights[1]) > 0
    THEN <<Element("timeline-highlights", exp.highlights[1])>>
    ELSE <<>>

\* The markup template of one entry (script.js 111-132).
RenderItem(exp) ==
    [cls |-> "timeline-item",
     children |->
        <<Element("timeline-marker", <<>>),
          Element("timeline-title", <<exp.title>>),
          Element("timeline-org", <<exp.organization>>),
          Element("timeline-meta",
                  <<exp.startDate, "-", exp.endDate, "*", exp.location>>)>>
        \o DescriptionPart(exp) \o HighlightsPart(exp)]

renderTimelineReversed(experiences) ==
    [i \in 1..Len(experiences) |->
        RenderItem(experiences[Len(experiences) + 1 - i])]

\* experiences.map(template).join(''): the html assigned to innerHTML
renderTimeline(experiences) ==
    [i \in 1..Len(experiences) |-> RenderItem(experiences[i])]

renderErrorKeepsLoading(message) ==
    <<LoadingBlock,
      [cls |-> "timeline-error",
       children |-> <<Element("p", <<"Unable to load experience data.">>),
                      Element("p", <<"Error:", message>>)>>]>>

\* renderError(message): the html assigned to innerHTML
renderError(message) ==
    <<[cls |-> "timeline-error",
       children |-> <<Element("p", <<"Unable to load experience data.">>),
                      Element("p", <<"Error:", message>>)>>]>>

\* What the try block throws for a settled body, NullV when it throws
\* nothing: response.json() rejects on invalid JSON, undefined.map and
\* null.title are TypeErrors.
ThrownBy(body) ==
    CASE body.json = "invalid" -> "Unexpected token in JSON"
      [] body.json = "noExperience" -> "Cannot read properties of undefined"
      [] \E i \in 1..Len(body.experience) : body.experience[i].isNull ->
            "Cannot read properties of null"
      [] OTHER -> NullV

HttpError(status) ==
    CASE status = 404 -> "HTTP error! status: 404"
      [] status = 500 -> "HTTP error! status: 500"
      [] OTHER -> "HTTP error! status: other"

\* response.ok
Ok(status) == status >= 200 /\ status <= 299

\* constructor + init() up to the first await: without #timeline init()
\* returns at once, otherwise the placeholder is written and the fetch issued
TimelineInit(p) ==
    /\ container = [present |-> p, html |-> IF p THEN <<LoadingBlock>> ELSE <<>>]
    /\ timelinePc = IF container.present THEN "fetch" ELSE "returned"
    /\ initPromise = IF container.present THEN "pending" ELSE "fulfilled"
    /\ containerWrites = IF container.present THEN 1 ELSE 0
    /\ fetchLog = IF container.present THEN <<container.html>> ELSE <<>>
    /\ timelineItems = <<>>
    /\ response = [state |-> "pending", status |-> 0, body |-> UnreadBody]

catchRetries(message) ==
    /\ container' = [container EXCEPT !.html = renderError(message)]
    /\ containerWrites' = containerWrites + 1
    /\ timelinePc' = "fetch"
    /\ initPromise' = "pending"
    /\ fetchLog' = Append(fetchLog, container'.html)
    /\ timelineItems' = <<>>

\* catch (error): log, renderError(error.message); init() then returns
catch(message) ==
    /\ container' = [container EXCEPT !.html = renderError(message)]
    /\ containerWrites' = containerWrites + 1
    /\ timelinePc' = "returned"
    /\ initPromise' = "fulfilled"
    /\ timelineItems' = <<>>
    /\ UNCHANGED fetchLog

\* The fetch promise rejects (network failure).
FetchRejects ==
    /\ timelinePc = "fetch"
    /\ response' = [response EXCEPT !.state = "rejected"]
    /\ catch("Failed to fetch")
    /\ UNCHANGED <<localStorageTheme, theme, dataTheme, themeToggle,
                   toggleClicks, initialTheme, mobileNav, lastClick>>
    /\ UNCHANGED scrollVars
    /\ UNCHANGED heroVars

\* The fetch promise resolves with a response; a non-OK status throws.
FetchResolves ==
    /\ timelinePc = "fetch"
    /\ \E status \in Statuses :
        /\ response' = [response EXCEPT !.state = "received", !.status = status]
        /\ IF Ok(status)
           THEN /\ timelinePc' = "json"
                /\ UNCHANGED <<container, containerWrites, initPromise, fetchLog,
                                timelineItems>>
           ELSE catch(HttpError(status))
    /\ UNCHANGED <<localStorageTheme, theme, dataTheme, themeToggle,
                   toggleClicks, initialTheme, mobileNav, lastClick>>
    /\ UNCHANGED scrollVars
    /\ UNCHANGED heroVars

\* response.json() settles; on success renderTimeline(data.experience).
JsonSettles ==
    /\ timelinePc = "json"
    /\ \E body \in Bodies :
        /\ response' = [response EXCEPT !.body = body]
        /\ IF ThrownBy(body) = NullV
           THEN /\ container' = [container EXCEPT
                                    !.html = renderTimeline(body.experience)]
                /\ containerWrites' = containerWrites + 1
                /\ timelinePc' = "returned"
                /\ initPromise' = "fulfilled"
                /\ timelineItems' = [i \in 1..Len(body.experience) |-> NewElement]
                /\ UNCHANGED fetchLog
           ELSE catch(ThrownBy(body))
    /\ UNCHANGED <<localStorageTheme, theme, dataTheme, themeToggle,
                   toggleClicks, initialTheme, mobileNav, lastClick>>
    /\ UNCHANGED scrollVars
    /\ UNCHANGED heroVars

\* ------------------------------------------------------------------------
\* NetworkHero
\*
\* Lengths are fixed-point: positions and velocities are integers counting
\* 1/Scale px, and every product is truncated toward zero where the
\* script keeps a float.  Indices are 1-based (the script's are 0-based).
\* ------------------------------------------------------------------------

Scale == 10 * 10

\* this.config (network-hero.js 16-23).  nodeCount is 50 in the script and
\* is scaled down here; fractions are in hundredths.
nodeCount == 3
maxDistance == 150
nodeRadius == 2
nodeSpeedPct == 30
mouseInfluence == 80
parallaxStrengthPct == 2
DampingPct == 99

NoCoord == -1
NoFrame == 0

\* Viewport sizes, px.
Sizes == {[innerWidth |-> 200, innerHeight |-> 100],
          [innerWidth |-> 120, innerHeight |-> 160]}

\* Pointer positions (clientX, clientY), px.
Pointers == {[x |-> 50, y |-> 60]}

\* Values of the four Math.random() calls that make one node, in 1/10000:
\* <<for x, for y, for vx, for vy>>.  Math.random() is in [0, 1).
RandomUnit == Scale * Scale
RandomDraws == {<<0, 0, 0, 0>>, <<5000, 9999, 0, 9999>>}

TruncDiv(a, b) == IF a >= 0 THEN a \div b ELSE -((-a) \div b)

RECURSIVE Bisect(_, _, _)
Bisect(lo, hi, s) ==
    IF lo >= hi THEN lo
    ELSE LET mid == (lo + hi + 1) \div 2
         IN IF mid * mid <= s THEN Bisect(mid, hi, s) ELSE Bisect(lo, mid - 1, s)

\* Math.sqrt, rounded down to 1/Scale px
Sqrt(s) == Bisect(0, 46340, s)

Min(a, b) == IF a < b THEN a ELSE b
Max(a, b) == IF a > b THEN a ELSE b

\* setCanvasSize(): the canvas takes the viewport's size
setCanvasSize(win) == [width |-> win.innerWidth, height |-> win.innerHeight]

\* The object pushed by one iteration of createNodes (network-hero.js 52-58).
NewNode(draw, cv) ==
    [x |-> (draw[1] * (cv.width * Scale)) \div RandomUnit,
     y |-> (draw[2] * (cv.height * Scale)) \div RandomUnit,
     vx |-> TruncDiv((draw[3] - RandomUnit \div 2) * nodeSpeedPct, RandomUnit),
     vy |-> TruncDiv((draw[4] - RandomUnit \div 2) * nodeSpeedPct, RandomUnit),
     radius |-> nodeRadius]

createNodesOneShort(draws, cv) ==
    [i \in 1..(nodeCount - 1) |-> NewNode(draws[i], cv)]

\* createNodes(): a fresh array of nodeCount nodes
createNodes(draws, cv) == [i \in 1..nodeCount |-> NewNode(draws[i], cv)]

\* The velocity the pointer adds to one node (network-hero.js 82-92).
MouseInfluenceOn(node, m) ==
    IF m.x # NoCoord /\ m.y # NoCoord
    THEN LET dx == m.x * Scale - node.x
             dy == m.y * Scale - node.y
             d2 == dx * dx + dy * dy
             reach == mouseInfluence * Scale
         IN IF d2 < reach * reach
            THEN LET distance == Sqrt(d2)
                 IN [vx |-> TruncDiv(dx * (reach - distance) * parallaxStrengthPct,
                                     reach * 100),
                     vy |-> TruncDiv(dy * (reach - distance) * parallaxStrengthPct,
                                     reach * 100)]
            ELSE [vx |-> 0, vy |-> 0]
    ELSE [vx |-> 0, vy |-> 0]

UpdateNodeNoClamp(node, m, cv) ==
    LET pull == MouseInfluenceOn(node, m)
        vx1 == node.vx + pull.vx
        vy1 == node.vy + pull.vy
        x1 == node.x + vx1
        y1 == node.y + vy1
        vx2 == IF x1 < 0 \/ x1 > cv.width * Scale THEN -vx1 ELSE vx1
        vy2 == IF y1 < 0 \/ y1 > cv.height * Scale THEN -vy1 ELSE vy1
    IN [node EXCEPT !.x = x1, !.y = y1,
                    !.vx = TruncDiv(vx2 * DampingPct, 100),
                    !.vy = TruncDiv(vy2 * DampingPct, 100)]

\* The body of the forEach in updateNodes (network-hero.js 81-108).
UpdateNode(node, m, cv) ==
    LET pull == MouseInfluenceOn(node, m)
        vx1 == node.vx + pull.vx
        vy1 == node.vy + pull.vy
        x1 == node.x + vx1
        y1 == node.y + vy1
        vx2 == IF x1 < 0 \/ x1 > cv.width * Scale THEN -vx1 ELSE vx1
        vy2 == IF y1 < 0 \/ y1 > cv.height * Scale THEN -vy1 ELSE vy1
    IN [node EXCEPT !.x = Max(0, Min(cv.width * Scale, x1)),
                    !.y = Max(0, Min(cv.height * Scale, y1)),
                    !.vx = TruncDiv(vx2 * DampingPct, 100),
                    !.vy = TruncDiv(vy2 * DampingPct, 100)]

\* updateNodes()
updateNodes(ns, m, cv) == [i \in 1..Len(ns) |-> UpdateNode(ns[i], m, cv)]

\* distance between two nodes as drawConnections computes it
NodeDistance(a, b) ==
    LET dx == a.x - b.x
        dy == a.y - b.y
    IN Sqrt(dx * dx + dy * dy)

RECURSIVE ConnectionsFrom(_, _, _)
\* the inner loop of drawConnections from index j on: the lines stroked
ConnectionsFrom(ns, i, j) ==
    IF j > Len(ns) THEN <<>>
    ELSE (IF NodeDistance(ns[i], ns[j]) < maxDistance * Scale
          THEN << <<i, j>> >> ELSE <<>>)
         \o ConnectionsFrom(ns, i, j + 1)

RECURSIVE ConnectionsOuter(_, _)
\* the outer loop of drawConnections from index i on; j starts at i + 1
ConnectionsOuter(ns, i) ==
    IF i > Len(ns) THEN <<>>
    ELSE ConnectionsFrom(ns, i, i + 1) \o ConnectionsOuter(ns, i + 1)

RECURSIVE ConnectionsOuterAllJ(_, _)
ConnectionsOuterAllJ(ns, i) ==
    IF i > Len(ns) THEN <<>>
    ELSE ConnectionsFrom(ns, i, 1) \o ConnectionsOuterAllJ(ns, i + 1)

drawConnectionsAllJ(ns) == ConnectionsOuterAllJ(ns, 1)

\* drawConnections(): the sequence of lines stroked, as index pairs
drawConnections(ns) == ConnectionsOuter(ns, 1)

\* render(): clear, draw the connections, then the nodes
render(ns) == [nodes |-> ns, lines |-> drawConnections(ns)]

ShouldAnimateAlways(reduced) == TRUE

\* init(): if (!this.prefersReducedMotion)
ShouldAnimate(reduced) == ~reduced

AllListeners == {"resize", "mousemove", "mouseleave"}

\* constructor + init(): size the canvas, create the nodes, then either
\* attach the listeners and run the first animate(), or render once.
HeroInit(reduced, win, draws) ==
    LET cv == setCanvasSize(win)
        created == createNodes(draws, cv)
        m0 == [x |-> NoCoord, y |-> NoCoord]
        first == updateNodes(created, m0, cv)
    IN /\ prefersReducedMotion = reduced
       /\ window = win
       /\ canvas = cv
       /\ mouse = m0
       /\ resized = FALSE
       /\ destroyed = FALSE
       /\ renderCount = 1
       /\ IF ShouldAnimate(reduced)
          THEN /\ listeners = AllListeners
               /\ nodes = first
               /\ lastRender = render(first)
               /\ animationId = 1
               /\ rafPending = {1}
               /\ rafRequests = 1
          ELSE /\ listeners = {}
               /\ nodes = created
               /\ lastRender = render(created)
               /\ animationId = NoFrame
               /\ rafPending = {}
               /\ rafRequests = 0

\* A pending animation frame request runs: animate().  MaxFrames caps the
\* number of requests the model follows.
AnimationFrame ==
    /\ rafRequests < MaxFrames
    /\ \E id \in rafPending :
        /\ nodes' = updateNodes(nodes, mouse, canvas)
        /\ lastRender' = render(nodes')
        /\ renderCount' = renderCount + 1
        /\ rafRequests' = rafRequests + 1
        /\ animationId' = rafRequests'
        /\ rafPending' = (rafPending \ {id}) \cup {rafRequests'}
    /\ UNCHANGED <<prefersReducedMotion, window, canvas, mouse, listeners,
                   resized, destroyed>>
    /\ UNCHANGED pageVars

ResizeRestartsLoop ==
    /\ \E win \in Sizes \ {window}, draws \in [1..nodeCount -> RandomDraws] :
        /\ window' = win
        /\ IF "resize" \in listeners
           THEN /\ canvas' = setCanvasSize(win)
                /\ nodes' = updateNodes(createNodes(draws, canvas'), mouse, canvas')
                /\ lastRender' = render(nodes')
                /\ renderCount' = renderCount + 1
                /\ rafRequests' = rafRequests + 1
                /\ animationId' = rafRequests'
                /\ rafPending' = rafPending \cup {rafRequests'}
           ELSE UNCHANGED <<canvas, nodes, lastRender, renderCount, rafRequests,
                            animationId, rafPending>>
    /\ resized' = TRUE
    /\ UNCHANGED <<prefersReducedMotion, mouse, listeners, destroyed>>
    /\ UNCHANGED pageVars

\* The viewport is resized; the 'resize' listener, when attached, runs
\* setCanvasSize() and createNodes().
Resize ==
    /\ \E win \in Sizes \ {window}, draws \in [1..nodeCount -> RandomDraws] :
        /\ window' = win
        /\ IF "resize" \in listeners
           THEN /\ canvas' = setCanvasSize(win)
                /\ nodes' = createNodes(draws, canvas')
           ELSE UNCHANGED <<canvas, nodes>>
    /\ resized' = TRUE
    /\ UNCHANGED <<prefersReducedMotion, mouse, animationId, rafPending,
                   rafRequests, listeners, renderCount, lastRender, destroyed>>
    /\ UNCHANGED pageVars

\* The pointer moves; the 'mousemove' listener records its position.
MouseMove ==
    /\ \E e \in Pointers :
        mouse' = IF "mousemove" \in listeners THEN [x |-> e.x, y |-> e.y] ELSE mouse
    /\ UNCHANGED <<prefersReducedMotion, window, canvas, nodes, animationId,
                   rafPending, rafRequests, listeners, renderCount, lastRender,
                   resized, destroyed>>
    /\ UNCHANGED pageVars

MouseLeaveResetsVelocities ==
    /\ mouse' = IF "mouseleave" \in listeners
                THEN [x |-> NoCoord, y |-> NoCoord] ELSE mouse
    /\ nodes' = IF "mouseleave" \in listeners
                THEN [i \in 1..Len(nodes) |-> [nodes[i] EXCEPT !.vx = 0, !.vy = 0]]
                ELSE nodes
    /\ UNCHANGED <<prefersReducedMotion, window, canvas, animationId,
                   rafPending, rafRequests, listeners, renderCount, lastRender,
                   resized, destroyed>>
    /\ UNCHANGED pageVars

\* The pointer leaves; the 'mouseleave' listener clears the position.
MouseLeave ==
    /\ mouse' = IF "mouseleave" \in listeners
                THEN [x |-> NoCoord, y |-> NoCoord] ELSE mouse
    /\ UNCHANGED <<prefersReducedMotion, window, canvas, nodes, animationId,
                   rafPending, rafRequests, listeners, renderCount, lastRender,
                   resized, destroyed>>
    /\ UNCHANGED pageVars

DestroyNoCancel ==
    /\ destroyed' = TRUE
    /\ UNCHANGED <<prefersReducedMotion, window, canvas, nodes, mouse,
                   animationId, rafPending, rafRequests, listeners, renderCount,
                   lastRender, resized>>
    /\ UNCHANGED pageVars

\* destroy(): cancel the request animationId names; the removeEventListener
\* calls pass functions that were never attached, so no listener goes.
Destroy ==
    /\ rafPending' = IF animationId # NoFrame THEN rafPending \ {animationId}
                     ELSE rafPending
    /\ destroyed' = TRUE
    /\ UNCHANGED <<prefersReducedMotion, window, canvas, nodes, mouse,
                   animationId, rafRequests, listeners, renderCount, lastRender,
                   resized>>
    /\ UNCHANGED pageVars

\* ------------------------------------------------------------------------
\* ScrollProgress, ActiveNav and ScrollAnimations
\*
\* Pixel values are integers.  A width is a percentage counted in 1/Scale
\* percent and truncated where the script keeps a float.  A link's href is
\* kept without its leading '#' (the selector a[href^="#"] guarantees one),
\* so href === `#${current}` reads href = current.
\* ------------------------------------------------------------------------

\* style.width of an element that has no inline width
NoWidth == -1

\* the margin subtracted from a section's offsetTop (script.js 208)
sectionMargin == 100

\* how many equal steps the scroll range is cut into
ScrollStops == 6

\* The markup the scripts find: the document's heights, whether
\* #scrollProgress exists, the section[id] elements and the
\* .nav-links a[href^="#"] elements in document order, and the number of
\* .expertise-card/.press-card/.game-card elements.
Documents ==
    { [scrollHeight |-> 400, clientHeight |-> 100, progressBar |-> TRUE,
       sections |-> <<[id |-> "home", offsetTop |-> 150],
                      [id |-> "about", offsetTop |-> 300]>>,
       links |-> <<"home", "about", "", "blog">>, cards |-> 1],
      [scrollHeight |-> 250, clientHeight |-> 100, progressBar |-> TRUE,
       sections |-> <<[id |-> "about", offsetTop |-> 200],
                      [id |-> "home", offsetTop |-> 0]>>,
       links |-> <<"home", "about">>, cards |-> 2],
      [scrollHeight |-> 100, clientHeight |-> 100, progressBar |-> TRUE,
       sections |-> <<>>,
       links |-> <<"home">>, cards |-> 0],
      [scrollHeight |-> 400, clientHeight |-> 100, progressBar |-> FALSE,
       sections |-> <<[id |-> "home", offsetTop |-> 0]>>,
       links |-> <<>>, cards |-> 1] }

\* The scroll positions a scroll event may report: the top, the bottom and
\* the steps between.
ScrollPositions(doc) ==
    {(k * (doc.scrollHeight - doc.clientHeight)) \div ScrollStops :
        k \in 0..ScrollStops}

\* ScrollProgress, scroll listener (script.js 182-187): the value assigned
\* to style.width, NoWidth for the 'NaN%' a zero height gives.
ScrolledPercentOfScrollHeight(doc) ==
    IF doc.scrollHeight = 0 THEN NoWidth
    ELSE (doc.scrollTop * 100 * Scale) \div doc.scrollHeight

ScrolledPercent(doc) ==
    LET winScroll == doc.scrollTop
        height == doc.scrollHeight - doc.clientHeight
    IN  IF height = 0 THEN NoWidth ELSE (winScroll * 100 * Scale) \div height

\* The progress bar after the listener ran: 'NaN%' is not a width, the
\* assignment is dropped and the bar keeps the width it had.
SetWidth(bar, percent) ==
    IF percent = NoWidth THEN bar ELSE [bar EXCEPT !.width = percent]

\* ActiveNav, scroll listener (script.js 203-211): the sections are visited
\* in document order and every one that qualifies overwrites current.
RECURSIVE Current(_, _, _)
Current(sections, scrollY, current) ==
    IF sections = <<>> THEN current
    ELSE LET section == Head(sections)
             sectionTop == section.offsetTop
         IN  Current(Tail(sections), scrollY,
                     IF scrollY >= sectionTop - sectionMargin
                     THEN section.id ELSE current)

\* ActiveNav, scroll listener (script.js 213-218): every link loses
\* 'active', the links whose href is '#' + current get it.
MarkLinks(links, current) ==
    [i \in 1..Len(links) |-> [links[i] EXCEPT !.active = (links[i].href = current)]]

\* ScrollAnimations.init (script.js 266-271) on one element
Observe(el) ==
    [el EXCEPT !.opacity = "0", !.transform = "translateY(20px)",
               !.transition = "opacity 0.6s ease, transform 0.6s ease",
               !.observed = TRUE]

\* The observer's callback (script.js 256-262) on one entry
OnEntryHidesAgain(el, isIntersecting) ==
    IF isIntersecting
    THEN [el EXCEPT !.opacity = "1", !.transform = "translateY(0)",
                    !.lastEntry = "in"]
    ELSE [el EXCEPT !.opacity = "0", !.transform = "translateY(20px)",
                    !.lastEntry = "out"]

OnEntry(el, isIntersecting) ==
    IF isIntersecting
    THEN [el EXCEPT !.opacity = "1", !.transform = "translateY(0)",
                    !.lastEntry = "in"]
    ELSE [el EXCEPT !.lastEntry = "out"]

\* The constructors of ScrollProgress and ActiveNav, and of ScrollAnimations
\* unless reduced motion is preferred (script.js 283-288).  The elements
\* ScrollAnimations.init selects are those in the document at that moment:
\* the cards; #timeline holds the placeholder or nothing.
ScrollInit(doc, reduced) ==
    /\ documentElement = [scrollTop |-> 0, scrollHeight |-> doc.scrollHeight,
                          clientHeight |-> doc.clientHeight]
    /\ progressBar = [present |-> doc.progressBar, width |-> NoWidth]
    /\ activeNav =
         [wired |-> Len(doc.sections) # 0 /\ Len(doc.links) # 0,
          sections |-> doc.sections,
          links |-> [i \in 1..Len(doc.links) |->
                        [href |-> doc.links[i], active |-> FALSE]]]
    /\ scrollAnimations =
         [constructed |-> ~reduced,
          cards |-> [i \in 1..doc.cards |->
                        IF reduced THEN NewElement ELSE Observe(NewElement)]]
    /\ scrolled = FALSE

\* A scroll event at position y: both scroll listeners run.
Scroll ==
    /\ \E y \in ScrollPositions(documentElement) :
         /\ documentElement' = [documentElement EXCEPT !.scrollTop = y]
         /\ progressBar' =
              IF progressBar.present
              THEN SetWidth(progressBar, ScrolledPercent(documentElement'))
              ELSE progressBar
         /\ activeNav' =
              IF activeNav.wired
              THEN [activeNav EXCEPT
                      !.links = MarkLinks(@, Current(activeNav.sections, y, ""))]
              ELSE activeNav
    /\ scrolled' = TRUE
    /\ UNCHANGED <<scrollAnimations, timelineItems>>
    /\ UNCHANGED <<localStorageTheme, theme, dataTheme, themeToggle,
                   toggleClicks, initialTheme, mobileNav, lastClick, container,
                   timelinePc, response, initPromise, containerWrites, fetchLog>>
    /\ UNCHANGED heroVars

\* The observer delivers an entry for an element it observes.
Intersection ==
    /\ \E isIntersecting \in BOOLEAN :
         \/ /\ \E i \in 1..Len(scrollAnimations.cards) :
                 /\ scrollAnimations.cards[i].observed
                 /\ scrollAnimations' =
                      [scrollAnimations EXCEPT
                         !.cards[i] = OnEntry(@, isIntersecting)]
            /\ UNCHANGED timelineItems
         \/ /\ \E i \in 1..Len(timelineItems) :
                 /\ timelineItems[i].observed
                 /\ timelineItems' =
                      [timelineItems EXCEPT ![i] = OnEntry(@, isIntersecting)]
            /\ UNCHANGED scrollAnimations
    /\ UNCHANGED <<documentElement, progressBar, activeNav, scrolled>>
    /\ UNCHANGED <<localStorageTheme, theme, dataTheme, themeToggle,
                   toggleClicks, initialTheme, mobileNav, lastClick, container,
                   timelinePc, response, initPromise, containerWrites, fetchLog>>
    /\ UNCHANGED heroVars

\* The scroll components of a page without their markup, for the
\* specifications that leave them alone.  ScrollAnimations is constructed
\* all the same unless reduced motion is preferred (script.js 286-288); it
\* then observes nothing.
ScrollQuiet(reduced) ==
    ScrollInit([scrollHeight |-> 100, clientHeight |-> 100,
                progressBar |-> FALSE, sections |-> <<>>, links |-> <<>>,
                cards |-> 0], reduced)

\* The hero left alone, for the specification of script.js.
HeroQuiet ==
    HeroInit(TRUE, [innerWidth |-> 200, innerHeight |-> 100],
             [i \in 1..nodeCount |-> <<0, 0, 0, 0>>])

\* script.js on a page that holds only the canvas, for the specification of
\* network-hero.js: no component of script.js finds its markup.
PageQuiet(reduced) ==
    /\ ThemeInit(NullV, [present |-> FALSE, inNavLinks |-> FALSE])
    /\ MobileNavInit(FALSE)
    /\ TimelineInit(FALSE)
    /\ ScrollQuiet(reduced)

\* ------------------------------------------------------------------------
\* The page of script.js
\* ------------------------------------------------------------------------

\* State when the DOMContentLoaded handler (script.js 276-289) has returned.
InitPage ==
    \E stored \in StoredThemes, button \in ThemeToggles, nav \in BOOLEAN,
       timeline \in BOOLEAN :
        /\ ThemeInit(stored, button)
        /\ MobileNavInit(nav)
        /\ TimelineInit(timeline)
        /\ ScrollQuiet(TRUE)
        /\ HeroQuiet

NextPage ==
    \/ \E target \in ClickTargets : Click(target)
    \/ FetchRejects
    \/ FetchResolves
    \/ JsonSettles

SpecPage == InitPage /\ [][NextPage]_vars

\* ------------------------------------------------------------------------
\* The page of network-hero.js
\* ------------------------------------------------------------------------

\* State when the DOMContentLoaded handler (network-hero.js 174-176) has
\* returned.
InitHero ==
    \E reduced \in BOOLEAN, win \in Sizes, draws \in [1..nodeCount -> RandomDraws] :
        /\ HeroInit(reduced, win, draws)
        /\ PageQuiet(reduced)

NextHero ==
    \/ AnimationFrame
    \/ Resize
    \/ MouseMove
    \/ MouseLeave
    \/ Destroy

SpecHero == InitHero /\ [][NextHero]_vars

\* ------------------------------------------------------------------------
\* The scrolling page of script.js
\* ------------------------------------------------------------------------

\* State when the DOMContentLoaded handlers have returned, the theme and the
\* mobile navigation left alone.
InitScroll ==
    \E doc \in Documents, reduced \in BOOLEAN, timeline \in BOOLEAN :
        /\ ThemeInit(NullV, [present |-> FALSE, inNavLinks |-> FALSE])
        /\ MobileNavInit(FALSE)
        /\ TimelineInit(timeline)
        /\ ScrollInit(doc, reduced)
        /\ HeroInit(reduced, [innerWidth |-> 200, innerHeight |-> 100],
                    [i \in 1..nodeCount |-> <<0, 0, 0, 0>>])

NextScroll ==
    \/ Scroll
    \/ Intersection
    \/ FetchRejects
    \/ FetchResolves
    \/ JsonSettles

SpecScroll == InitScroll /\ [][NextScroll]_vars

Init == InitPage \/ InitHero \/ InitScroll
Next == NextPage \/ NextHero \/ NextScroll
Spec == Init /\ [][Next]_vars


\* ------------------------------------------------------------------------
\* Claims about ThemeManager
\* ------------------------------------------------------------------------

\* C1 (as stated): after any number of toggle clicks, from any stored
\* preference, the data-theme attribute equals the value stored under
\* 'theme'.
C1_AppliedEqualsPersistedAlways == dataTheme = localStorageTheme

\* C1 (amended): whenever a value is stored under 'theme' the data-theme
\* attribute equals it; nothing is stored only when none was stored at load
\* and no toggle click has happened yet, and then the attribute is "light".
C1_AppliedEqualsPersisted ==
    /\ localStorageTheme # NullV => dataTheme = localStorageTheme
    /\ localStorageTheme = NullV => toggleClicks = 0 /\ dataTheme = "light"
    /\ toggleClicks > 0 => localStorageTheme # NullV

C1_Witness ==
    /\ toggleClicks = 3
    /\ initialTheme = "light"
    /\ localStorageTheme = "dark"
    /\ dataTheme = "dark"

Opposite(t) == CASE t = "light" -> "dark" [] t = "dark" -> "light"

\* C2: the applied theme is the stored preference ("light" when none is
\* stored) before any click, is the initial value after an even number of
\* clicks and the other value after an odd number, and is always "light"
\* or "dark".
C2_StrictAlternation ==
    /\ dataTheme \in {"light", "dark"}
    /\ toggleClicks = 0 =>
          dataTheme = (IF localStorageTheme = NullV THEN "light"
                       ELSE localStorageTheme)
    /\ toggleClicks % 2 = 0 => dataTheme = initialTheme
    /\ toggleClicks % 2 = 1 => dataTheme = Opposite(initialTheme)

C2_Witness ==
    /\ toggleClicks = 4
    /\ initialTheme = "dark"
    /\ dataTheme = "dark"
    /\ localStorageTheme = "dark"

\* ------------------------------------------------------------------------
\* Claims about MobileNav
\* ------------------------------------------------------------------------

\* C3: after any sequence of clicks isOpen agrees with the DOM: open means
\* both 'active' classes and the inline flex style are present, closed means
\* neither class is present and the inline style is empty.
C3_StateMatchesDom ==
    /\ mobileNav.isOpen = mobileNav.toggleActive
    /\ mobileNav.isOpen = mobileNav.navLinksActive
    /\ mobileNav.isOpen => mobileNav.cssText = FlexCss
    /\ ~mobileNav.isOpen => mobileNav.cssText = ""

C3_Witness ==
    /\ lastClick = [target |-> "body", wasOpen |-> TRUE]
    /\ ~mobileNav.isOpen
    /\ ~mobileNav.toggleActive
    /\ mobileNav.cssText = ""

\* C4: once a click on a navigation link has been dispatched the menu is
\* closed, whether it was open or closed before the click.
C4_LinkClickCloses == lastClick.target = "navLink" => ~mobileNav.isOpen

C4_Witness ==
    /\ lastClick = [target |-> "navLink", wasOpen |-> TRUE]
    /\ mobileNav.present
    /\ ~mobileNav.isOpen

\* ------------------------------------------------------------------------
\* Claims about ExperienceTimeline
\* ------------------------------------------------------------------------

ItemCount(html) == Cardinality({i \in 1..Len(html) : html[i].cls = "timeline-item"})
ErrorCount(html) == Cardinality({i \in 1..Len(html) : html[i].cls = "timeline-error"})

\* the served document carries an array of entries, every one an object
ServedEntries ==
    /\ response.body.json = "array"
    /\ \A i \in 1..Len(response.body.experience) :
          ~response.body.experience[i].isNull

\* C5: when the fetch succeeds with an array of N entries the container
\* holds exactly N timeline-item blocks and nothing else, the i-th block
\* showing the i-th entry, after one write beyond the placeholder's; until
\* init() has returned the container holds no item at all.
C5_RendersAllInOrder ==
    /\ timelinePc # "returned" => ItemCount(container.html) = 0
    /\ ServedEntries =>
        LET xs == response.body.experience
            html == container.html
        IN /\ timelinePc = "returned"
           /\ Len(html) = Len(xs)
           /\ ItemCount(html) = Len(xs)
           /\ containerWrites = 2
           /\ \A i \in 1..Len(xs) :
                /\ html[i].children[2] = Element("timeline-title", <<xs[i].title>>)
                /\ html[i].children[3] = Element("timeline-org", <<xs[i].organization>>)

C5_Witness ==
    /\ response.body = [json |-> "array", experience |-> <<Entry1, Entry2>>]
    /\ Len(container.html) = 2
    /\ container.html[1].children[2].text = <<"Lead">>
    /\ container.html[2].children[2].text = <<"Engineer">>

\* the try block of init() has thrown
TimelineFailed ==
    \/ response.state = "rejected"
    \/ response.state = "received" /\ response.status \notin 200..299
    \/ response.body.json \in {"invalid", "noExperience"}
    \/ \E i \in 1..Len(response.body.experience) :
          response.body.experience[i].isNull

\* C6: on every failure path the container holds exactly one block, an
\* error block, and no timeline item, and init() has completed normally;
\* the promise of init() is never rejected.
C6_FailureShowsOneError ==
    /\ initPromise # "rejected"
    /\ TimelineFailed =>
        /\ timelinePc = "returned"
        /\ initPromise = "fulfilled"
        /\ Len(container.html) = 1
        /\ ErrorCount(container.html) = 1
        /\ ItemCount(container.html) = 0

C6_Witness ==
    /\ response.state = "received"
    /\ response.status = 200
    /\ response.body.json = "invalid"
    /\ Len(container.html) = 1
    /\ container.html[1].cls = "timeline-error"

\* ------------------------------------------------------------------------
\* Claims about NetworkHero
\* ------------------------------------------------------------------------

\* C7: in every state, whatever frames, pointer events and resizes have
\* happened, every node lies within the canvas: 0 <= x <= width and
\* 0 <= y <= height.
C7_NodesWithinCanvas ==
    \A i \in 1..Len(nodes) :
        /\ 0 <= nodes[i].x /\ nodes[i].x <= canvas.width * Scale
        /\ 0 <= nodes[i].y /\ nodes[i].y <= canvas.height * Scale

\* after a resize and with the pointer on the canvas, one node has bounced
\* off the left edge and another off the bottom edge
C7_Witness ==
    /\ resized
    /\ renderCount >= 3
    /\ mouse.x # NoCoord
    /\ \E i \in 1..Len(nodes) : nodes[i].x = 0 /\ nodes[i].vx > 0
    /\ \E i \in 1..Len(nodes) : nodes[i].y = canvas.height * Scale /\ nodes[i].vy < 0

\* C8: the node array has exactly nodeCount elements in every state, after
\* initialization and after any resize, and so had the array every render
\* drew.
C8_ExactlyNodeCount ==
    /\ Len(nodes) = nodeCount
    /\ Len(lastRender.nodes) = nodeCount

\* a frame has drawn the array a resize created
C8_Witness ==
    /\ resized
    /\ "resize" \in listeners
    /\ canvas = setCanvasSize(window)
    /\ lastRender.nodes = nodes
    /\ Len(nodes) = nodeCount

\* C9: with reduced motion preferred, whatever events follow, no animation
\* frame is ever requested and render() has run exactly once.
C9_ReducedMotionIsStatic ==
    prefersReducedMotion =>
        /\ rafRequests = 0
        /\ rafPending = {}
        /\ animationId = NoFrame
        /\ renderCount = 1

C9_Witness ==
    /\ prefersReducedMotion
    /\ resized
    /\ canvas.width # window.innerWidth
    /\ renderCount = 1

SquaredDistance(a, b) == (a.x - b.x) * (a.x - b.x) + (a.y - b.y) * (a.y - b.y)

\* C10: in every render each line joins two distinct nodes closer than
\* maxDistance, and no unordered pair of nodes is joined twice.
C10_EachPairAtMostOnce ==
    LET lines == lastRender.lines
        ns == lastRender.nodes
    IN /\ \A k \in 1..Len(lines) :
            /\ lines[k][1] # lines[k][2]
            /\ SquaredDistance(ns[lines[k][1]], ns[lines[k][2]])
                  < (maxDistance * Scale) * (maxDistance * Scale)
       /\ \A k, l \in 1..Len(lines) :
            k # l => {lines[k][1], lines[k][2]} # {lines[l][1], lines[l][2]}

\* a render that joined some pairs of nodes and left another pair apart
C10_Witness ==
    /\ Len(lastRender.lines) >= 1
    /\ Len(lastRender.lines) < (nodeCount * (nodeCount - 1)) \div 2
    /\ renderCount >= 2


\* C11: once destroy() has returned no animation frame request is pending,
\* and from then on no frame runs (no update, no render) and no request is
\* made.
C11_DestroyStopsTheLoop ==
    /\ [](destroyed => rafPending = {})
    /\ [][destroyed => /\ renderCount' = renderCount
                       /\ rafRequests' = rafRequests
                       /\ lastRender' = lastRender]_vars

\* destroy() was called while the loop was running, after a second frame
C11_Witness ==
    /\ destroyed
    /\ ~prefersReducedMotion
    /\ rafRequests = 2
    /\ animationId = 2
    /\ rafPending = {}

\* C12 (as stated): after destroy() a resize or pointer-move event leaves
\* the canvas size, the node array and the pointer state unchanged.
C12_DestroyDetachesListeners ==
    [][destroyed => UNCHANGED <<canvas, nodes, mouse>>]_vars


\* C14: one click is one transition.  With the listeners wired, a click on
\* the toggle control leaves the menu in the state opposite to the one it
\* had, a click outside both the toggle and the panel leaves it closed, and
\* a click inside the panel that is not on a link leaves it as it was.
C14_OneClickOneTransition ==
    mobileNav.present =>
        /\ lastClick.target = "mobileMenuToggle" =>
              mobileNav.isOpen = ~lastClick.wasOpen
        /\ lastClick.target = "body" => ~mobileNav.isOpen
        /\ lastClick.target = "navLinks" => mobileNav.isOpen = lastClick.wasOpen
        /\ lastClick.target = "themeToggle" =>
              IF themeToggle.inNavLinks
              THEN mobileNav.isOpen = lastClick.wasOpen
              ELSE ~mobileNav.isOpen

\* the toggle control was clicked while the menu was open
C14_Witness ==
    /\ mobileNav.present
    /\ lastClick = [target |-> "mobileMenuToggle", wasOpen |-> TRUE]
    /\ ~mobileNav.isOpen
    /\ mobileNav.cssText = ""


\* C17: the placeholder is in the container when fetch() is called, fetch()
\* is called at most once, the container is written once more when the
\* attempt has settled, to the rendered timeline or to one error block, and
\* from then on the container, the fetch count and the position of init()
\* never change.
C17_SingleAttemptTerminal ==
    /\ [](/\ Len(fetchLog) <= 1
          /\ container.present => fetchLog = << <<LoadingBlock>> >>
          /\ timelinePc # "returned" =>
                container.html = <<LoadingBlock>> /\ containerWrites = 1
          /\ timelinePc = "returned" /\ container.present =>
                /\ containerWrites = 2
                /\ \/ Len(container.html) = 1 /\ ErrorCount(container.html) = 1
                   \/ ItemCount(container.html) = Len(container.html))
    /\ [][timelinePc = "returned" =>
            UNCHANGED <<container, containerWrites, fetchLog, timelinePc>>]_vars

\* the attempt has failed on a non-OK status, and a click has been dispatched
C17_Witness ==
    /\ timelinePc = "returned"
    /\ response.status = 500
    /\ ErrorCount(container.html) = 1
    /\ lastClick.target = "body"
    /\ Len(fetchLog) = 1


Abs(v) == IF v < 0 THEN -v ELSE v

\* C18: a pointer-leave event leaves the pointer position null and changes
\* no node; and in every frame that runs while the pointer position is null
\* each velocity component only loses the 0.99 damping, up to the sign a
\* boundary reflection flips.
C18_PointerLeaveStopsAttraction ==
    /\ [][MouseLeave /\ "mouseleave" \in listeners =>
            mouse' = [x |-> NoCoord, y |-> NoCoord]]_vars
    /\ [][mouse.x # NoCoord /\ mouse'.x = NoCoord =>
            nodes' = nodes /\ lastRender' = lastRender]_vars
    /\ [][renderCount' # renderCount /\ mouse.x = NoCoord /\ mouse.y = NoCoord =>
            \A i \in 1..Len(nodes) :
                /\ Abs(nodes'[i].vx) = (Abs(nodes[i].vx) * DampingPct) \div 100
                /\ Abs(nodes'[i].vy) = (Abs(nodes[i].vy) * DampingPct) \div 100]_vars

\* the pointer has attracted a node beyond any initial speed and has left,
\* and the node keeps the speed it gained
C18_Witness ==
    /\ mouse = [x |-> NoCoord, y |-> NoCoord]
    /\ renderCount >= 3
    /\ \E i \in 1..Len(nodes) : Abs(nodes[i].vx) > (nodeSpeedPct \div 2)


\* C20: with reduced motion not preferred, from the end of init() until
\* destroy() exactly one animation frame request is pending between frames,
\* and animationId is the id of that request.
C20_ExactlyOnePendingFrame ==
    ~prefersReducedMotion /\ ~destroyed =>
        /\ animationId # NoFrame
        /\ rafPending = {animationId}

\* frames have run around a resize and a pointer move, and one request is
\* pending
C20_Witness ==
    /\ ~prefersReducedMotion
    /\ ~destroyed
    /\ resized
    /\ mouse.x # NoCoord
    /\ rafRequests = 3
    /\ rafPending = {3}

\* ------------------------------------------------------------------------
\* Claims about the scroll components
\* ------------------------------------------------------------------------

Revealed(el) == el.opacity = "1" /\ el.transform = "translateY(0)"

Hidden(el) == el.opacity = "0" /\ el.transform = "translateY(20px)"

\* C13: revealing is one-way: an observed element that has been revealed
\* (opacity 1, no vertical offset) stays revealed through every later step,
\* the delivery of an entry that reports it out of the viewport included.
C13_RevealIsOneWay ==
    [][\A i \in 1..Len(scrollAnimations.cards) :
          Revealed(scrollAnimations.cards[i])
              => Revealed(scrollAnimations'.cards[i])]_vars

\* An observed card was revealed, and the last entry delivered for it
\* reported it out of the viewport.
C13_Witness ==
    \E i \in 1..Len(scrollAnimations.cards) :
        /\ scrollAnimations.cards[i].observed
        /\ scrollAnimations.cards[i].lastEntry = "out"
        /\ Revealed(scrollAnimations.cards[i])

\* C15 (as stated): when ScrollAnimations exists, every .timeline-item that
\* ExperienceTimeline has rendered is registered with the observer and
\* carries the inline transition and the hidden or, once seen, the revealed
\* style.
C15_TimelineItemsObserved ==
    scrollAnimations.constructed =>
        \A i \in 1..Len(timelineItems) :
            /\ timelineItems[i].observed
            /\ timelineItems[i].transition # ""
            /\ Hidden(timelineItems[i]) \/ Revealed(timelineItems[i])

\* The sections the viewport has scrolled past, as indices in document order
ScrolledPast ==
    {i \in 1..Len(activeNav.sections) :
        documentElement.scrollTop >= activeNav.sections[i].offsetTop - 100}

\* C16 (as stated): after every scroll event a link is active exactly when
\* some section has been scrolled past and the link's fragment is the id of
\* the last such section in document order; with no such section no link is
\* active.
C16_ActiveLinkIsLastSectionPassed ==
    scrolled =>
        \A i \in 1..Len(activeNav.links) :
            activeNav.links[i].active <=>
                /\ ScrolledPast # {}
                /\ \E s \in ScrolledPast :
                      /\ \A t \in ScrolledPast : t <= s
                      /\ activeNav.links[i].href = activeNav.sections[s].id

\* C19: after every scroll event on a page that has the bar and scrolls
\* (scrollHeight - clientHeight is not zero), the width is
\* scrollTop / (scrollHeight - clientHeight) * 100 percent, cut to 1/Scale
\* percent; it lies in [0, 100], is 0 at the top and 100 at the bottom.
C19_ProgressIsScrolledFraction ==
    LET height == documentElement.scrollHeight - documentElement.clientHeight
        exact == documentElement.scrollTop * 100 * Scale
        width == progressBar.width
    IN  (scrolled /\ progressBar.present /\ height # 0
            /\ 0 <= documentElement.scrollTop
            /\ documentElement.scrollTop <= height)
        => /\ width * height <= exact
           /\ exact < (width + 1) * height
           /\ 0 <= width
           /\ width <= 100 * Scale
           /\ documentElement.scrollTop = 0 => width = 0
           /\ documentElement.scrollTop = height => width = 100 * Scale

\* A scroll event has reported the exact bottom of a page that scrolls, and
\* the bar is full.
C19_Witness ==
    /\ scrolled
    /\ progressBar.present
    /\ documentElement.scrollHeight > documentElement.clientHeight
    /\ documentElement.scrollTop =
          documentElement.scrollHeight - documentElement.clientHeight
    /\ progressBar.width = 100 * Scale

=============================================================================
